---------------------------- MODULE Spec2Model ----------------------------
(***************************************************************************)
(* Black-Scholes pricing, Greeks and the Newton-Raphson implied-volatility *)
(* solver of package finance (src/lib.go).                                 *)
(*                                                                         *)
(* float64 is modelled by a decimal fixed-point format with the three      *)
(* IEEE-754 special values:                                                *)
(*   [k |-> "num", v |-> n]   the number n / Scale, |n| <= MaxFin          *)
(*   [k |-> "inf", v |-> 1]   +Inf        [k |-> "inf", v |-> -1]   -Inf   *)
(*   [k |-> "nan", v |-> 0]   NaN                                          *)
(* A result whose magnitude exceeds MaxFin overflows to +-Inf, a result    *)
(* below half a quantum underflows to 0, x/0 is +-Inf, and 0/0, Inf-Inf,   *)
(* 0*Inf, Inf/Inf, log and sqrt of a negative are NaN; every comparison    *)
(* with NaN is false.  The format has one zero (no -0).                    *)
(***************************************************************************)
EXTENDS Integers, Sequences, FiniteSets, TLC

Scale == 10^7                \* quanta per unit: one quantum is 1e-7
MaxFin == 2 * 10^9           \* largest finite magnitude, in quanta (200.0)
Base == 10^4                 \* limb size of the double-limb product

----------------------------------------------------------------------------
(* Integer helpers (magnitudes are non-negative quanta).                   *)

Sgn(n) == IF n > 0 THEN 1 ELSE IF n < 0 THEN -1 ELSE 0

Mag(n) == IF n < 0 THEN -n ELSE n

\* n / d for d > 0, rounded to nearest, sign kept
RDiv(n, d) ==
  Sgn(n) * ((Mag(n) \div d) + (IF 2 * (Mag(n) % d) >= d THEN 1 ELSE 0))

\* round(A * B / Scale) without leaving 32 bits; MaxFin + 1 when it overflows
MulMag(A, B) ==
  LET a1 == A \div Base
      a0 == A % Base
      b1 == B \div Base
      b0 == B % Base
      P == a1 * b0
      Q == a0 * b1
      R == a0 * b0
  IN  IF a1 > 0 /\ b1 > ((MaxFin \div 10) \div a1)
        THEN MaxFin + 1
        ELSE (a1 * b1 * 10) + (P \div 1000) + (Q \div 1000)
             + (((P % 1000) + (Q % 1000) + (R \div Base) + 500) \div 1000)

\* signed product of two finite quanta counts that cannot overflow
SMul(a, b) == Sgn(a) * Sgn(b) * MulMag(Mag(a), Mag(b))

RECURSIVE DivDigits(_, _, _, _)
DivDigits(r, B, n, acc) ==
  IF n = 0
    THEN (IF 2 * r >= B THEN acc + 1 ELSE acc)
    ELSE DivDigits((r * 10) % B, B, n - 1, (acc * 10) + ((r * 10) \div B))

\* round(A * Scale / B) for B > 0; MaxFin + 1 when it overflows
RECURSIVE DivMag(_, _)
DivMag(A, B) ==
  IF B > (MaxFin \div 10)
    THEN DivMag(A \div 10, B \div 10)
    ELSE IF (A \div B) > (MaxFin \div Scale)
           THEN MaxFin + 1
           ELSE ((A \div B) * Scale) + DivDigits(A % B, B, 7, 0)

----------------------------------------------------------------------------
(* float64 values and arithmetic.                                          *)

F(n) == [k |-> "num", v |-> n]
NaN == [k |-> "nan", v |-> 0]
PosInf == [k |-> "inf", v |-> 1]
NegInf == [k |-> "inf", v |-> -1]

Inf(s) == IF s > 0 THEN PosInf ELSE NegInf

IsNaN(x) == x.k = "nan"
IsInf(x) == x.k = "inf"
IsNum(x) == x.k = "num"

\* a magnitude with its sign, overflowing to +-Inf
Clamp(s, m) == IF m > MaxFin THEN Inf(s) ELSE F(s * m)

\* the decimal literal n/d
Num(n, d) == F((n * Scale) \div d)

Zero == F(0)
One == F(Scale)
Two == F(2 * Scale)
Half == F(Scale \div 2)

Neg(x) == IF IsNaN(x) THEN NaN ELSE [k |-> x.k, v |-> -x.v]

Abs(x) == IF IsNaN(x) THEN NaN ELSE [k |-> x.k, v |-> Mag(x.v)]

Add(x, y) ==
  IF IsNaN(x) \/ IsNaN(y) THEN NaN
  ELSE IF IsInf(x) /\ IsInf(y) THEN (IF x.v = y.v THEN x ELSE NaN)
  ELSE IF IsInf(x) THEN x
  ELSE IF IsInf(y) THEN y
  ELSE IF x.v > 0 /\ y.v > MaxFin - x.v THEN PosInf
  ELSE IF x.v < 0 /\ y.v < -MaxFin - x.v THEN NegInf
  ELSE F(x.v + y.v)

Sub(x, y) == Add(x, Neg(y))

Mul(x, y) ==
  IF IsNaN(x) \/ IsNaN(y) THEN NaN
  ELSE LET s == Sgn(x.v) * Sgn(y.v)
       IN  IF IsInf(x) \/ IsInf(y) THEN (IF s = 0 THEN NaN ELSE Inf(s))
           ELSE IF s = 0 THEN Zero
           ELSE Clamp(s, MulMag(Mag(x.v), Mag(y.v)))

Div(x, y) ==
  IF IsNaN(x) \/ IsNaN(y) THEN NaN
  ELSE IF IsInf(x) THEN (IF IsInf(y) THEN NaN
                         ELSE Inf(x.v * (IF y.v >= 0 THEN 1 ELSE -1)))
  ELSE IF IsInf(y) THEN Zero
  ELSE IF y.v = 0 THEN (IF x.v = 0 THEN NaN ELSE Inf(Sgn(x.v)))
  ELSE IF x.v = 0 THEN Zero
  ELSE Clamp(Sgn(x.v) * Sgn(y.v), DivMag(Mag(x.v), Mag(y.v)))

\* x / n for an integer constant n > 0 that lies outside the format's range
DivInt(x, n) == IF IsNum(x) THEN F(RDiv(x.v, n)) ELSE x

\* the position of a non-NaN value on the extended number line
Key(x) == IF IsInf(x) THEN x.v * (MaxFin + 1) ELSE x.v

Lt(x, y) == ~IsNaN(x) /\ ~IsNaN(y) /\ Key(x) < Key(y)
Le(x, y) == ~IsNaN(x) /\ ~IsNaN(y) /\ Key(x) <= Key(y)
Gt(x, y) == Lt(y, x)
Ge(x, y) == Le(y, x)
Eq(x, y) == ~IsNaN(x) /\ ~IsNaN(y) /\ Key(x) = Key(y)

----------------------------------------------------------------------------
(* Package math: Sqrt, Exp, Log, Erf, Pow and the constants Pi, Sqrt2,     *)
(* evaluated in the fixed-point format to within a few quanta.             *)

Pi == F(31415927)
Sqrt2 == F(14142136)
Ln2Quanta == 6931472           \* ln 2
TwoOverSqrtPi == 11283792      \* 2 / sqrt(pi)
InvSqrtPi == 5641896           \* 1 / sqrt(pi)

\* Newton's iteration y <- (y + x/y) / 2, descending from y >= sqrt(x)
RECURSIVE SqrtIter(_, _)
SqrtIter(x, y) ==
  LET z == (y + DivMag(x, y)) \div 2
  IN  IF z >= y THEN y ELSE SqrtIter(x, z)

Sqrt(x) ==
  IF IsNaN(x) \/ x.v < 0 THEN NaN
  ELSE IF IsInf(x) THEN PosInf
  ELSE IF x.v = 0 THEN Zero
  ELSE F(SqrtIter(x.v, IF x.v > Scale THEN x.v ELSE Scale))

\* the Taylor series of exp for |x| <= 1/2: the terms from x^n/n! on
RECURSIVE ExpTerms(_, _, _, _)
ExpTerms(x, term, n, acc) ==
  IF n > 12 THEN acc
  ELSE LET t == RDiv(SMul(term, x), n)
       IN  ExpTerms(x, t, n + 1, acc + t)

\* exp(x) = exp(x/2)^2 down to |x| <= 1/2; MaxFin + 1 when it overflows
RECURSIVE ExpFin(_)
ExpFin(x) ==
  IF Mag(x) <= Scale \div 2
    THEN ExpTerms(x, Scale, 1, Scale)
    ELSE LET y == ExpFin(Sgn(x) * (Mag(x) \div 2))
         IN  IF y > MaxFin THEN MaxFin + 1 ELSE MulMag(y, y)

Exp(x) ==
  IF IsNaN(x) THEN NaN
  ELSE IF IsInf(x) THEN (IF x.v > 0 THEN PosInf ELSE Zero)
  ELSE Clamp(1, ExpFin(x.v))

\* 2 * atanh(z) = 2 * (z + z^3/3 + z^5/5 + ...), the terms from z^(2n+1) on
RECURSIVE LnTerms(_, _, _, _)
LnTerms(z2, p, n, acc) ==
  IF n > 7 THEN 2 * acc
  ELSE LnTerms(z2, SMul(p, z2), n + 1, acc + RDiv(p, (2 * n) + 1))

\* ln(x) = k ln 2 + ln(x / m) for m = 2^k, with x / m brought near 1
RECURSIVE LnFin(_, _, _)
LnFin(x, m, k) ==
  IF k < 7 /\ x > m + (m \div 2) THEN LnFin(x, 2 * m, k + 1)
  ELSE IF x < 3 * (m \div 4) THEN LnFin(2 * x, m, k - 1)
  ELSE LET z == Sgn(x - m) * DivMag(Mag(x - m) \div 2, (x \div 2) + (m \div 2))
       IN  LnTerms(SMul(z, z), z, 0, 0) + (k * Ln2Quanta)

Log(x) ==
  IF IsNaN(x) \/ x.v < 0 THEN NaN
  ELSE IF IsInf(x) THEN PosInf
  ELSE IF x.v = 0 THEN NegInf
  ELSE F(LnFin(x.v, Scale, 0))

Pow2(x) == Mul(x, x)             \* math.Pow(x, 2)

\* erf on [0, 1]: (2/sqrt(pi)) * sum (-1)^n x^(2n+1) / (n! (2n+1))
RECURSIVE ErfTerms(_, _, _, _)
ErfTerms(x2, p, n, acc) ==
  IF p = 0 THEN acc
  ELSE LET q == RDiv(MulMag(p, x2), n)
           t == RDiv(q, (2 * n) + 1)
       IN  ErfTerms(x2, q, n + 1, IF n % 2 = 1 THEN acc - t ELSE acc + t)

ErfSeries(x) == MulMag(TwoOverSqrtPi, ErfTerms(MulMag(x, x), x, 1, x))

\* erfc beyond 1: exp(-x^2) / (sqrt(pi) (x + (1/2)/(x + 1/(x + (3/2)/...))))
RECURSIVE ErfcTail(_, _, _)
ErfcTail(x, n, f) ==
  IF n = 0 \/ f > MaxFin    \* (f is evaluated level by level)
    THEN f
    ELSE ErfcTail(x, n - 1, x + DivMag((n * Scale) \div 2, f))

ErfcFraction(x) ==
  DivMag(MulMag(InvSqrtPi, ExpFin(-MulMag(x, x))), ErfcTail(x, 40, x))

\* erf of a magnitude; the result is an even number of quanta, so that
\* 0.5 * (1 + erf) is exact as it is in binary floating point
ErfMag(x) ==
  LET e == IF x >= 4 * Scale THEN Scale
           ELSE IF x <= Scale THEN ErfSeries(x)
           ELSE Scale - ErfcFraction(x)
  IN  IF e >= Scale THEN Scale ELSE 2 * ((e + 1) \div 2)

Erf(x) ==
  IF IsNaN(x) THEN NaN
  ELSE IF IsInf(x) THEN F(x.v * Scale)
  ELSE F(Sgn(x.v) * ErfMag(Mag(x.v)))

----------------------------------------------------------------------------
(* src/lib.go: the Option contract and the closed-form functions.          *)

Call == 0
Put == 1

DaysPerYear == 365

\* option.DaysToExpiration / 365.0
TimeToExpiration(option) == DivInt(option.DaysToExpiration, DaysPerYear)

\* Phi calculates the cumulative distribution function of the standard normal
Phi(x) == Mul(Half, Add(One, Erf(Div(x, Sqrt2))))

\* d1 as BlackScholesOptionPrice, BlackScholesVega and BlackScholesGamma
\* each compute it
D1(option, volatility) ==
  LET timeToExpiration == TimeToExpiration(option)
  IN  Div(Add(Log(Div(option.UnderlyingPrice, option.Strike)),
              Mul(Add(option.RiskFreeRate, Mul(Half, Pow2(volatility))),
                  timeToExpiration)),
          Mul(volatility, Sqrt(timeToExpiration)))

\* the put priced on the strike itself, not on its discounted value
PriceUndiscountedPut(option, volatility) ==
  LET timeToExpiration == TimeToExpiration(option)
      d1 == D1(option, volatility)
      d2 == Sub(d1, Mul(volatility, Sqrt(timeToExpiration)))
      discounted == Mul(option.Strike,
                        Exp(Mul(Neg(option.RiskFreeRate), timeToExpiration)))
  IN  IF option.OptionType = Call
        THEN Sub(Mul(option.UnderlyingPrice, Phi(d1)), Mul(discounted, Phi(d2)))
        ELSE Sub(Mul(option.Strike, Phi(Neg(d2))),
                 Mul(option.UnderlyingPrice, Phi(Neg(d1))))

BlackScholesOptionPrice(option, volatility) ==
  LET timeToExpiration == TimeToExpiration(option)
      d1 == D1(option, volatility)
      d2 == Sub(d1, Mul(volatility, Sqrt(timeToExpiration)))
      discounted == Mul(option.Strike,
                        Exp(Mul(Neg(option.RiskFreeRate), timeToExpiration)))
  IN  IF option.OptionType = Call
        THEN Sub(Mul(option.UnderlyingPrice, Phi(d1)), Mul(discounted, Phi(d2)))
        ELSE Sub(Mul(discounted, Phi(Neg(d2))),
                 Mul(option.UnderlyingPrice, Phi(Neg(d1))))

\* a vega that takes the sign of the position: negative for a put
VegaSignedByType(option, volatility) ==
  LET timeToExpiration == TimeToExpiration(option)
      d1 == D1(option, volatility)
      v == Div(Mul(Mul(option.UnderlyingPrice, Sqrt(timeToExpiration)),
                   Exp(Mul(Mul(Neg(Half), d1), d1))),
               Sqrt(Mul(Two, Pi)))
  IN  IF option.OptionType = Call THEN v ELSE Neg(v)

BlackScholesVega(option, volatility) ==
  LET timeToExpiration == TimeToExpiration(option)
      d1 == D1(option, volatility)
  IN  Div(Mul(Mul(option.UnderlyingPrice, Sqrt(timeToExpiration)),
              Exp(Mul(Mul(Neg(Half), d1), d1))),
          Sqrt(Mul(Two, Pi)))

NormalDistributionDerivative(x) ==
  Div(Exp(Mul(Neg(Half), Pow2(x))), Sqrt(Mul(Two, Pi)))

BlackScholesGamma(option, vol) ==
  LET d1 == D1(option, vol)
  IN  Div(NormalDistributionDerivative(d1),
          Mul(Mul(option.UnderlyingPrice, vol), Sqrt(TimeToExpiration(option))))

\* a put delta of -Phi(d1)
DeltaPutMirrored(option, volatility) ==
  LET d1 == D1(option, volatility)
  IN  IF option.OptionType = Call THEN Phi(d1) ELSE Neg(Phi(d1))

BlackScholesDelta(option, volatility) ==
  LET timeToExpiration == TimeToExpiration(option)
      d1 == Div(Add(Log(Div(option.UnderlyingPrice, option.Strike)),
                    Mul(Add(option.RiskFreeRate,
                            Div(Mul(volatility, volatility), Two)),
                        timeToExpiration)),
                Mul(volatility, Sqrt(timeToExpiration)))
  IN  IF option.OptionType = Call THEN Phi(d1) ELSE Sub(Phi(d1), One)

----------------------------------------------------------------------------
(* src/lib.go: BlackScholesImpliedVolatility, one step per statement.      *)

maxIterations == 100

\* a tolerance of 0.01
epsilonLoose == Num(1, 100)

epsilon == Num(1, 10000)          \* Tolerance for convergence
InitialGuess == Num(2, 10)        \* Initial guess for volatility

\* i <= maxIterations
LoopConditionInclusive(n) == n <= maxIterations

\* i < maxIterations
LoopCondition(n) == n < maxIterations

\* !(math.Abs(price-targetPrice) >= epsilon), which holds of a NaN price
WithinToleranceNegated(p, target) == ~Ge(Abs(Sub(p, target)), epsilon)

\* math.Abs(price-targetPrice) < epsilon
WithinTolerance(p, target) == Lt(Abs(Sub(p, target)), epsilon)

\* the update floored at zero
NewtonStepFloored(cv, p, target, vg) ==
  LET next == Sub(cv, Div(Sub(p, target), vg))
  IN  IF Lt(next, Zero) THEN Zero ELSE next

\* currentVolatility - (price - targetPrice) / vega
NewtonStep(cv, p, target, vg) == Sub(cv, Div(Sub(p, target), vg))

----------------------------------------------------------------------------
(* The inputs: contracts on an underlying at 100 with 30 days to run at a  *)
(* rate of 5%, from deep in to deep out of the money, quoted at 1 or 10,   *)
(* and the at-the-money contract on its expiration day.  The volatilities  *)
(* are a negative one, zero, 0.1, 0.2 and the multiples of 0.25.  On these *)
(* inputs the fixed-point functions and the float64 ones agree on which    *)
(* values are exactly 0 or 1 and on which solver runs converge.            *)

MaxVolSteps == 6

Strikes == {52, 90, 100, 110, 200}
Quotes == {1, 10}
Volatilities ==
  {Num(-2, 10), Zero, Num(1, 10), Num(2, 10)}
    \cup {Num(25 * n, 100) : n \in 1..MaxVolSteps}

Contract(p, K, days, type) ==
  [Price |-> Num(p, 1), Strike |-> Num(K, 1), DaysToExpiration |-> Num(days, 1),
   RiskFreeRate |-> Num(5, 100), UnderlyingPrice |-> Num(100, 1),
   OptionType |-> type]

Contracts ==
  {Contract(p, K, 30, type) : p \in Quotes, K \in Strikes, type \in {Call, Put}}
    \cup {Contract(p, 100, 0, type) : p \in Quotes, type \in {Call, Put}}

\* strike > 0, underlyingPrice > 0, daysToExpiration > 0
Valid(o) ==
  /\ Gt(o.Strike, Zero)
  /\ Gt(o.UnderlyingPrice, Zero)
  /\ Gt(o.DaysToExpiration, Zero)

\* the same contract with the other option type
Sibling(o) == [o EXCEPT !.OptionType = IF o.OptionType = Call THEN Put ELSE Call]

----------------------------------------------------------------------------
(* State.                                                                  *)

VARIABLES
  option,             \* the Option passed to the functions
  volatility,         \* the volatility passed to price and Greeks
  quote,              \* what price and the Greeks returned for them
  roundTrip,          \* option.Price was set to the price at volatility
  pc,                 \* idle, quoted, loop, test, return, done
  i,                  \* the loop counter
  targetPrice,
  currentVolatility,
  price,
  vega,
  broke,              \* the loop was left by its break
  priceCalls,         \* evaluations of BlackScholesOptionPrice by the solver
  vegaCalls,          \* evaluations of BlackScholesVega by the solver
  iterates,           \* every value currentVolatility has held, in order
  result              \* the value returned

vars == <<option, volatility, quote, roundTrip, pc, i, targetPrice,
          currentVolatility, price, vega, broke, priceCalls, vegaCalls,
          iterates, result>>

solverVars == <<i, targetPrice, currentVolatility, price, vega, broke,
                priceCalls, vegaCalls, iterates, result>>

NoQuote == [price |-> Zero, vega |-> Zero, gamma |-> Zero, delta |-> Zero]

Init ==
  /\ option \in Contracts
  /\ volatility \in Volatilities
  /\ quote = NoQuote
  /\ roundTrip = FALSE
  /\ pc = "idle"
  /\ i = 0
  /\ targetPrice = Zero
  /\ currentVolatility = Zero
  /\ price = Zero
  /\ vega = Zero
  /\ broke = FALSE
  /\ priceCalls = 0
  /\ vegaCalls = 0
  /\ iterates = <<>>
  /\ result = Zero

\* The caller evaluates price and the Greeks of option at volatility.
PriceAndGreeks ==
  /\ pc = "idle"
  /\ quote' = [price |-> BlackScholesOptionPrice(option, volatility),
               vega |-> BlackScholesVega(option, volatility),
               gamma |-> BlackScholesGamma(option, volatility),
               delta |-> BlackScholesDelta(option, volatility)]
  /\ pc' = "quoted"
  /\ UNCHANGED <<option, volatility, roundTrip>>
  /\ UNCHANGED solverVars

\* lines 26-30: the solver's locals before the loop
Enter(o) ==
  /\ targetPrice' = o.Price
  /\ currentVolatility' = InitialGuess
  /\ vega' = Zero
  /\ i' = 0
  /\ iterates' = <<InitialGuess>>
  /\ pc' = "loop"
  /\ UNCHANGED <<price, broke, priceCalls, vegaCalls, result>>

\* BlackScholesImpliedVolatility(option) on the contract as quoted; the call
\* takes no volatility, so the caller's is dropped from the state.
SolveObserved ==
  /\ pc = "idle"
  /\ Enter(option)
  /\ volatility' = Zero
  /\ UNCHANGED <<option, quote, roundTrip>>

\* option.Price = BlackScholesOptionPrice(option, volatility), then
\* BlackScholesImpliedVolatility(option)
SolveRoundTrip ==
  /\ pc = "quoted"
  /\ option' = [option EXCEPT !.Price = quote.price]
  /\ roundTrip' = TRUE
  /\ Enter(option')
  /\ UNCHANGED <<volatility, quote>>

\* lines 31-33: the loop condition holds; price and vega at the iterate
Evaluate ==
  /\ pc = "loop"
  /\ LoopCondition(i)
  /\ price' = BlackScholesOptionPrice(option, currentVolatility)
  /\ vega' = BlackScholesVega(option, currentVolatility)
  /\ priceCalls' = priceCalls + 1
  /\ vegaCalls' = vegaCalls + 1
  /\ pc' = "test"
  /\ UNCHANGED <<option, volatility, quote, roundTrip, i, targetPrice,
                 currentVolatility, broke, iterates, result>>

\* line 31: the loop condition fails
Exhaust ==
  /\ pc = "loop"
  /\ ~LoopCondition(i)
  /\ pc' = "return"
  /\ UNCHANGED <<option, volatility, quote, roundTrip, i, targetPrice,
                 currentVolatility, price, vega, broke, priceCalls, vegaCalls,
                 iterates, result>>

\* a break placed after the update instead of before it
BreakAfterUpdate ==
  /\ pc = "test"
  /\ WithinTolerance(price, targetPrice)
  /\ currentVolatility' = NewtonStep(currentVolatility, price, targetPrice, vega)
  /\ iterates' = Append(iterates, currentVolatility')
  /\ broke' = TRUE
  /\ pc' = "return"
  /\ UNCHANGED <<option, volatility, quote, roundTrip, i, targetPrice, price,
                 vega, priceCalls, vegaCalls, result>>

\* lines 34-36: convergence achieved
Break ==
  /\ pc = "test"
  /\ WithinTolerance(price, targetPrice)
  /\ broke' = TRUE
  /\ pc' = "return"
  /\ UNCHANGED <<option, volatility, quote, roundTrip, i, targetPrice,
                 currentVolatility, price, vega, priceCalls, vegaCalls,
                 iterates, result>>

\* lines 37-39 and the i++ of line 31: the Newton-Raphson update
Update ==
  /\ pc = "test"
  /\ ~WithinTolerance(price, targetPrice)
  /\ currentVolatility' = NewtonStep(currentVolatility, price, targetPrice, vega)
  /\ iterates' = Append(iterates, currentVolatility')
  /\ i' = i + 1
  /\ pc' = "loop"
  /\ UNCHANGED <<option, volatility, quote, roundTrip, targetPrice, price,
                 vega, broke, priceCalls, vegaCalls, result>>

\* a return that reports a run without convergence as NaN
ReturnFlagged ==
  /\ pc = "return"
  /\ result' = IF broke THEN currentVolatility ELSE NaN
  /\ pc' = "done"
  /\ UNCHANGED <<option, volatility, quote, roundTrip, i, targetPrice,
                 currentVolatility, price, vega, broke, priceCalls, vegaCalls,
                 iterates>>

\* line 40: return currentVolatility
Return ==
  /\ pc = "return"
  /\ result' = currentVolatility
  /\ pc' = "done"
  /\ UNCHANGED <<option, volatility, quote, roundTrip, i, targetPrice,
                 currentVolatility, price, vega, broke, priceCalls, vegaCalls,
                 iterates>>

Next ==
  \/ PriceAndGreeks
  \/ SolveObserved
  \/ SolveRoundTrip
  \/ Evaluate
  \/ Exhaust
  \/ Break
  \/ Update
  \/ Return

Spec == Init /\ [][Next]_vars

\* price and the Greeks alone
SpecGreeks == Init /\ [][PriceAndGreeks]_vars

----------------------------------------------------------------------------
(* Claims about BlackScholesImpliedVolatility.                             *)

InSolver == pc \in {"loop", "test", "return"}

\* |BlackScholesOptionPrice(option, v) - option.Price|
PriceError(v) == Abs(Sub(BlackScholesOptionPrice(option, v), option.Price))

\* the tolerance test of the text: price error strictly below 0.0001
Converged(v) == Lt(PriceError(v), Num(1, 10000))

\* the Newton-Raphson update of the text, from iterate v
Updated(v) ==
  Sub(v, Div(Sub(BlackScholesOptionPrice(option, v), option.Price),
             BlackScholesVega(option, v)))

HasNonFinite(seq) == \E j \in 1..Len(seq) : ~IsNum(seq[j])

\* the statements a call has left to execute, at most
StepsLeft ==
  CASE pc = "loop" -> 2 * (100 - i) + 2
    [] pc = "test" -> 2 * (100 - i) + 1
    [] pc = "return" -> 1
    [] OTHER -> 0

\* C1: every call of the solver returns after at most 100 passes of its loop,
\* whatever the Option, the ones whose price or vega is NaN included: it
\* evaluates the price and the vega at most 100 times each, once per pass, and
\* each of its steps brings the return nearer.
C1_ReturnsWithinHundredIterations ==
  /\ [](/\ i <= 100
        /\ priceCalls <= 100
        /\ vegaCalls <= 100
        /\ priceCalls = vegaCalls
        /\ pc = "loop" => priceCalls = i
        /\ pc = "test" => priceCalls = i + 1)
  /\ [][InSolver => (0 <= StepsLeft' /\ StepsLeft' < StepsLeft)]_vars

\* a degenerate Option (no time to run, at the money) whose price is NaN has
\* returned after exactly 100 evaluations
C1_Witness ==
  /\ pc = "done"
  /\ ~Valid(option)
  /\ IsNaN(price)
  /\ priceCalls = 100
  /\ vegaCalls = 100

\* C2: the first iterate is 0.2; each iterate is tested before any update; a
\* call that stops on the test returns the iterate it tested, with no update
\* applied to it, that iterate has a price error strictly below 0.0001 and no
\* earlier iterate has; a call that never stops on the test had no iterate
\* among the 100 that passes it.
C2_ReturnsFirstIterateWithinTolerance ==
  /\ (InSolver \/ pc = "done") =>
       /\ iterates[1] = Num(2, 10)
       /\ Len(iterates) = i + 1
  /\ (pc = "done" /\ broke) =>
       /\ i <= 99
       /\ result = iterates[i + 1]
       /\ Converged(result)
       /\ \A j \in 1..i : ~Converged(iterates[j])
  /\ (pc = "done" /\ ~broke) =>
       \A j \in 1..100 : ~Converged(iterates[j])

\* the solver stopped on the test after two updates, at 0.8602180, for the
\* at-the-money call quoted at 10
C2_Witness ==
  /\ pc = "done"
  /\ broke
  /\ ~roundTrip
  /\ option = Contract(10, 100, 30, Call)
  /\ i = 2
  /\ result = F(8602180)

\* C3: when none of the 100 tested iterates passes the tolerance test, the
\* value returned is the one the 100th update produced, returned as a plain
\* float: a number, an infinity or NaN, and nothing else.
C3_ExhaustedReturnsLastUpdate ==
  (pc = "done" /\ ~broke) =>
    /\ i = 100
    /\ Len(iterates) = 101
    /\ result = iterates[101]
    /\ result = Updated(iterates[100])
    /\ result \in [k : {"num", "inf", "nan"}, v : Int]

\* a run without convergence that returns a finite number
C3_Witness ==
  /\ pc = "done"
  /\ ~broke
  /\ priceCalls = 100
  /\ IsNum(result)

\* C9: a non-finite iterate does not end the loop early: a zero vega at an
\* iterate that fails the test makes the next iterate non-finite, every call
\* with a non-finite iterate runs all 100 passes and returns a non-finite
\* value, and no call stops on the test while the price is NaN.
C9_NonFiniteRunsToTheEnd ==
  /\ (pc = "loop" /\ i > 0 /\ Eq(vega, Zero)) => ~IsNum(currentVolatility)
  /\ (InSolver /\ broke) => ~IsNaN(price)
  /\ (pc = "done" /\ HasNonFinite(iterates)) =>
       /\ ~broke
       /\ i = 100
       /\ priceCalls = 100
       /\ ~IsNum(result)

\* a valid Option whose vega vanished: an infinite iterate, 100 passes, NaN
\* returned
C9_Witness ==
  /\ pc = "done"
  /\ Valid(option)
  /\ \E j \in 1..Len(iterates) : IsInf(iterates[j])
  /\ priceCalls = 100
  /\ IsNaN(result)

\* C10: every update sets the iterate to exactly
\* currentVolatility - (price - targetPrice) / vega with the price and the
\* vega of that same iterate, with no floor and no cap; the next pass hands
\* the iterate unchanged to the price and the vega, a negative one included.
C10_UpdateIsUnclamped ==
  [][/\ (pc = "test" /\ pc' = "loop") =>
          /\ price = BlackScholesOptionPrice(option, currentVolatility)
          /\ vega = BlackScholesVega(option, currentVolatility)
          /\ currentVolatility' =
               Sub(currentVolatility, Div(Sub(price, targetPrice), vega))
     /\ (pc = "loop" /\ pc' = "test") =>
          /\ currentVolatility' = currentVolatility
          /\ price' = BlackScholesOptionPrice(option, currentVolatility)
          /\ vega' = BlackScholesVega(option, currentVolatility)
     /\ (pc = "return" /\ pc' = "done") => result' = currentVolatility]_vars

\* a negative iterate was priced, updated and in the end returned
C10_Witness ==
  /\ pc = "done"
  /\ IsNum(result)
  /\ Lt(result, Zero)
  /\ \E j \in 1..100 : Lt(iterates[j], Zero)

----------------------------------------------------------------------------
(* Claims about the round trip, the price and the Greeks.                  *)

\* s in [0.05, 1.5]
InRoundTripRange(s) == Le(Num(5, 100), s) /\ Le(s, Num(15, 10))

CallPrice ==
  IF option.OptionType = Call
    THEN quote.price ELSE BlackScholesOptionPrice(Sibling(option), volatility)
PutPrice ==
  IF option.OptionType = Put
    THEN quote.price ELSE BlackScholesOptionPrice(Sibling(option), volatility)

\* UnderlyingPrice - Strike * exp(-RiskFreeRate * DaysToExpiration / 365)
Forward ==
  Sub(option.UnderlyingPrice,
      Mul(option.Strike,
          Exp(Mul(Neg(option.RiskFreeRate),
                  DivInt(option.DaysToExpiration, DaysPerYear)))))

ParityHolds == Le(Abs(Sub(Sub(CallPrice, PutPrice), Forward)), Num(1, 1000000))

\* C5, as stated: for any two Options that differ only in OptionType and any
\* volatility, price(Call) - price(Put) is within 0.000001 of
\* UnderlyingPrice - Strike * exp(-RiskFreeRate * DaysToExpiration / 365).
C5_PutCallParity == pc = "quoted" => ParityHolds

\* C5, amended: put-call parity holds within 0.000001 whenever d1 is not NaN.
C5_PutCallParityWhereDefined ==
  (pc = "quoted" /\ ~IsNaN(D1(option, volatility))) => ParityHolds

\* a valid contract at a positive volatility whose call and put both have a
\* positive price
C5_Witness ==
  /\ pc = "quoted"
  /\ Valid(option)
  /\ Gt(volatility, Zero)
  /\ Gt(CallPrice, One)
  /\ Gt(PutPrice, One)
  /\ ~Eq(option.Strike, option.UnderlyingPrice)

\* the delta of the call and of the put on the contract of option
CallDelta ==
  IF option.OptionType = Call
    THEN quote.delta ELSE BlackScholesDelta(Sibling(option), volatility)
PutDelta ==
  IF option.OptionType = Put
    THEN quote.delta ELSE BlackScholesDelta(Sibling(option), volatility)

\* C6, as stated: for valid Options and volatility > 0 the call delta lies
\* strictly between 0 and 1, the put delta strictly between -1 and 0, and
\* callDelta - putDelta == 1.
C6_DeltaStrictlyInside ==
  (pc = "quoted" /\ Valid(option) /\ Gt(volatility, Zero)) =>
    /\ Lt(Zero, CallDelta) /\ Lt(CallDelta, One)
    /\ Lt(Neg(One), PutDelta) /\ Lt(PutDelta, Zero)
    /\ Sub(CallDelta, PutDelta) = One

\* C6, amended: for valid Options and volatility > 0 the call delta lies in
\* [0, 1], the put delta in [-1, 0], the bounds included, and
\* callDelta - putDelta == 1.
C6_DeltaWithinBounds ==
  (pc = "quoted" /\ Valid(option) /\ Gt(volatility, Zero)) =>
    /\ Le(Zero, CallDelta) /\ Le(CallDelta, One)
    /\ Le(Neg(One), PutDelta) /\ Le(PutDelta, Zero)
    /\ Sub(CallDelta, PutDelta) = One

\* deep in the money the call delta is 1 and the put delta 0
C6_Witness ==
  /\ pc = "quoted"
  /\ Valid(option)
  /\ Gt(volatility, Zero)
  /\ CallDelta = One
  /\ PutDelta = Zero

\* C7, as stated: for any valid Option and volatility > 0 the price is
\* strictly greater than 0.
C7_PricePositive ==
  (pc = "quoted" /\ Valid(option) /\ Gt(volatility, Zero)) =>
    Gt(quote.price, Zero)

\* C8: for valid Options and volatility > 0 the vega and the gamma are not
\* negative, and each is the same for the call and the put on a contract.
C8_VegaGammaNonNegative ==
  (pc = "quoted" /\ Valid(option) /\ Gt(volatility, Zero)) =>
    /\ Ge(quote.vega, Zero)
    /\ Ge(quote.gamma, Zero)
    /\ BlackScholesVega(Sibling(option), volatility) = quote.vega
    /\ BlackScholesGamma(Sibling(option), volatility) = quote.gamma

\* a put with a positive vega and a positive gamma
C8_Witness ==
  /\ pc = "quoted"
  /\ Valid(option)
  /\ Gt(volatility, Zero)
  /\ option.OptionType = Put
  /\ Gt(quote.vega, One)
  /\ Gt(quote.gamma, Zero)

============================================================================
